---- MODULE Spec2Model ----
(***************************************************************************)
(* A model of the enhanced PTY session manager of coder1-tauri             *)
(* (src-tauri/src/pty_enhanced.rs): the session registry behind one        *)
(* non-reentrant mutex, the per-session last_activity timestamp behind its *)
(* own mutex, the reader pump thread of every session, the pty allocation  *)
(* retry loop, the idle sweep and the statistics; and of the simpler       *)
(* TerminalManager (src-tauri/src/terminal.rs), whose callers choose the   *)
(* ids.  The two managers share nothing: Spec runs the first, TermSpec the *)
(* second, each leaving the other's variables as they start.               *)
(*                                                                         *)
(* Granularity.  A step of the model is a maximal piece of one thread's    *)
(* code that touches shared state once: a registry critical section, a     *)
(* reading of the monotonic clock (Instant::now()), or one locked access   *)
(* to a last_activity cell.  In `*cell.lock().unwrap() = Instant::now()`   *)
(* Rust evaluates the assigned value first and the assignee (the lock)     *)
(* second, so the clock reading and the store are two steps.               *)
(***************************************************************************)
EXTENDS Naturals, Integers, Sequences, FiniteSets, TLC

\* ------------------------------------------------------------------ bounds

\* Caller threads (tauri command handlers and the periodic cleanup thread).
NumThreads == 2
\* Number of times the clock advances in one run.
MaxTicks == 1
\* Number of calls made in one run, all threads together.
MaxCalls == 3
\* PtyManager.max_sessions; PtyManager::new() sets 10, the model runs a
\* smaller registry so that the ceiling is reached.
max_sessions == 1

\* TerminalManager: the ids its callers choose among, and the number of
\* Terminal values made in one run.
NumTermIds == 2
MaxTerminals == 2

\* ------------------------------------------------------- program constants

\* PtyManager.retry_attempts as set by PtyManager::new().
retry_attempts == 3
\* Base of the backoff in create_pty_with_retry, in milliseconds.
BACKOFF_BASE_MS == 100
\* Idle threshold handed to cleanup_idle_sessions, in seconds (30 minutes).
IDLE_TIMEOUT == 1800

Threads == 1..NumThreads
\* Every call may be a create_session, so uuid hands out at most MaxCalls ids.
Ids == 1..MaxCalls
\* The id of a call that names no session, and the owner of a free mutex.
NoId == MaxCalls + 1
NoThread == NumThreads + 1

\* TerminalManager: the caller-supplied ids, the Terminal values in the order
\* of their making, and the values that stand for none of them.
TermIds == 1..NumTermIds
Instances == 1..MaxTerminals
NoTermId == NumTermIds + 1
NoInstance == MaxTerminals + 1

\* The clock advances by one second, by the idle threshold, or by a second
\* more than the threshold.
TickSteps == {1, IDLE_TIMEOUT, IDLE_TIMEOUT + 1}

VARIABLES
    now,            \* the monotonic clock (Instant::now()), in seconds
    ticks,          \* how often the clock has advanced
    sessions,       \* PtyManager.sessions: the ids in the registry map
    created_at,     \* PtySession.created_at of every id
    last_activity,  \* the Arc<Mutex<Instant>> cell of every id
    usedIds,        \* ids uuid has generated so far
    pump,           \* per id: the reader thread's position
    pumpT,          \* per id: the clock reading the reader thread holds
    calls,          \* number of calls made so far
    lockHolder,     \* the thread holding the registry mutex, or NoThread
    poisoned,       \* the registry mutex is poisoned
    pc,             \* per caller thread: its position
    frame,          \* per caller thread: the call's arguments and locals
    pty_size        \* per id: the dimensions (rows, cols) of the session's pty

\* The state of TerminalManager (terminal.rs).
VARIABLES
    terminals,      \* TerminalManager.terminals: per id the Terminal stored
    term_size,      \* per id: the dimensions of the stored Terminal's pty
    term_made,      \* number of Terminal values made so far
    term_pumps,     \* the running reader threads: <<id, Terminal>>
    term_emitted,   \* per id: the Terminal whose thread emitted last under it
    term_pc,        \* per caller thread: its position
    term_frame      \* per caller thread: the call and its result

termVars == <<terminals, term_size, term_made, term_pumps, term_emitted,
              term_pc, term_frame>>

ptyVars == <<now, ticks, sessions, created_at, last_activity, usedIds, pump,
             pumpT, calls, lockHolder, poisoned, pc, frame, pty_size>>

vars == <<now, ticks, sessions, created_at, last_activity, usedIds, pump,
          pumpT, calls, lockHolder, poisoned, pc, frame, pty_size, termVars>>

\* ----------------------------------------------------------------- helpers

\* PtySize { rows, cols }: the size create_session asks for, the sizes the
\* callers of resize_session ask for, and the size of a pty that does not
\* exist.
DefaultSize == <<24, 80>>
ResizeSizes == {<<24, 80>>, <<40, 120>>}
NoSize == <<0, 0>>

IdleFrame ==
    [op |-> "none", id |-> NoId, t_now |-> 0, t_la |-> 0, todo |-> {},
     idle |-> {}, seen |-> {}, attempt |-> 0, attempts_made |-> 0,
     delays |-> <<>>, created |-> 0, len0 |-> 0, found |-> FALSE,
     result |-> "none", size |-> NoSize, stats |-> {}, active |-> 0]

Pow2(n) == 2 ^ n

\* Instant::duration_since saturates at zero.
DurationSince(later, earlier) == IF later >= earlier THEN later - earlier ELSE 0

\* The filter of cleanup_idle_sessions.
IsIdleMutant(t_now, la, idle_duration) == DurationSince(t_now, la) >= idle_duration
IsIdle(t_now, la, idle_duration) == DurationSince(t_now, la) > idle_duration

\* The sleep before the attempt with loop index `attempt` (> 0), in ms:
\* Duration::from_millis(100 * 2_u64.pow(attempt)).
BackoffDelay(attempt) == BACKOFF_BASE_MS * Pow2(attempt)

\* `for attempt in 0..self.retry_attempts`: the loop runs the body for this
\* index.
LoopContinuesMutant(attempt) == attempt <= retry_attempts
LoopContinues(attempt) == attempt < retry_attempts

\* uuid::Uuid::new_v4(): an id not generated before.  Ids are interchangeable,
\* so the least unused one stands for any of them.
NewUuidReused(used) == {1}
NewUuid(used) ==
    IF Ids \ used = {} THEN {}
    ELSE {CHOOSE i \in Ids \ used : \A j \in Ids \ used : i <= j}

\* The ceiling test of create_session.
AtCapacityMutant(n) == n > max_sessions
AtCapacity(n) == n >= max_sessions

LockFree == lockHolder = NoThread /\ ~poisoned

\* The call returns `res`: its locals die, the model keeps what the call was
\* and what it observed.
Finish(t, res) ==
    /\ pc' = [pc EXCEPT ![t] = "done"]
    /\ frame' = [frame EXCEPT ![t] =
          [IdleFrame EXCEPT
             !.op = frame[t].op, !.id = frame[t].id, !.result = res,
             !.found = frame[t].found, !.len0 = frame[t].len0,
             !.idle = frame[t].idle,
             !.attempts_made =
                 IF res = "ResourceExhausted" THEN frame[t].attempts_made ELSE 0,
             !.delays =
                 IF res = "ResourceExhausted" THEN frame[t].delays ELSE <<>>]]

TermIdleFrame ==
    [op |-> "none", id |-> NoTermId, inst |-> NoInstance, result |-> "none"]

\* ---------------------------------------------------------------- initial

\* TerminalManager::new(): an empty map, no thread.
TermInit ==
    /\ terminals = [i \in TermIds |-> NoInstance]
    /\ term_size = [i \in TermIds |-> NoSize]
    /\ term_made = 0
    /\ term_pumps = {}
    /\ term_emitted = [i \in TermIds |-> NoInstance]
    /\ term_pc = [t \in Threads |-> "idle"]
    /\ term_frame = [t \in Threads |-> TermIdleFrame]

Init ==
    /\ now = 0
    /\ ticks = 0
    /\ sessions = {}
    /\ created_at = [i \in Ids |-> 0]
    /\ last_activity = [i \in Ids |-> 0]
    /\ usedIds = {}
    /\ pump = [i \in Ids |-> "none"]
    /\ pumpT = [i \in Ids |-> 0]
    /\ calls = 0
    /\ lockHolder = NoThread
    /\ poisoned = FALSE
    /\ pc = [t \in Threads |-> "idle"]
    /\ frame = [t \in Threads |-> IdleFrame]
    /\ pty_size = [i \in Ids |-> NoSize]
    /\ TermInit

\* ------------------------------------------------------------------- clock

Tick ==
    /\ ticks < MaxTicks
    /\ \E d \in TickSteps : now' = now + d
    /\ ticks' = ticks + 1
    /\ UNCHANGED <<termVars, pty_size, calls, sessions, created_at,
                   last_activity, usedIds, pump, pumpT, lockHolder, poisoned,
                   pc, frame>>

\* ------------------------------------------------------------ reader pump

\* The ids that create_session has drawn and not yet inserted into the
\* registry (lines 136-178).
Unpublished ==
    {frame[t].id : t \in {u \in Threads : pc[u] \in {"cs_build", "cs_insert"}}}

\* The cell of id i is an Arc shared by the PtySession and the reader thread:
\* it is freed (0 here) when the last of the two is gone.  Until the insert
\* the PtySession's share is a local of create_session.
CellAfterDrop(i, registry, v) == IF i \in registry THEN v ELSE 0

\* Removing ids from the map drops their PtySession values: created_at goes
\* with the value, the cell goes when the reader thread has ended too.  The
\* JoinHandle is dropped without a join, so a running reader thread runs on.
DropCreated(removed) ==
    [i \in Ids |-> IF i \in removed THEN 0 ELSE created_at[i]]
DropCells(removed) ==
    [i \in Ids |-> IF i \in removed /\ pump[i] = "done"
                   THEN 0 ELSE last_activity[i]]

\* reader.read(&mut buffer) returns Ok(n), n > 0: the thread evaluates
\* Instant::now(), the right-hand side of the assignment of line 151.
reader_read_data(i) ==
    /\ pump[i] = "reading"
    /\ pump' = [pump EXCEPT ![i] = "bump"]
    /\ pumpT' = [pumpT EXCEPT ![i] = now]
    /\ UNCHANGED <<termVars, pty_size, calls, now, ticks, sessions,
                   created_at, last_activity, usedIds, lockHolder, poisoned,
                   pc, frame>>

\* The value a store into the cell leaves there.
StoredInstant(old, new) == new

\* Whether the reader thread locks the registry.  Its closure captures the
\* reader, the app handle, a copy of the id and a clone of the Arc of the
\* last_activity cell: the PtyManager is not among them.
PumpLocksRegistryMutant == TRUE
PumpLocksRegistry == FALSE

\* The thread locks its own last_activity cell, stores the reading it holds
\* and emits the terminal-output event.  It takes no other lock.
reader_bump(i) ==
    /\ pump[i] = "bump"
    /\ PumpLocksRegistry => LockFree
    /\ last_activity' =
           [last_activity EXCEPT ![i] = StoredInstant(@, pumpT[i])]
    /\ pump' = [pump EXCEPT ![i] = "reading"]
    /\ pumpT' = [pumpT EXCEPT ![i] = 0]
    /\ UNCHANGED <<termVars, pty_size, calls, now, ticks, sessions,
                   created_at, usedIds, lockHolder, poisoned, pc, frame>>

\* Ok(0) or Err(e): the loop breaks and the thread ends.  Nothing else
\* happens: the registry is not touched.
reader_eof(i) ==
    /\ pump[i] = "reading"
    /\ pump' = [pump EXCEPT ![i] = "done"]
    /\ last_activity' =
           [last_activity EXCEPT
               ![i] = CellAfterDrop(i, sessions \cup Unpublished, @)]
    /\ UNCHANGED <<termVars, pty_size, calls, now, ticks, sessions,
                   created_at, usedIds, pumpT, lockHolder, poisoned, pc,
                   frame>>

\* ------------------------------------------------------------------ calls

Ops == {"create_session", "write_to_session", "resize_session",
        "close_session", "cleanup_idle_sessions", "get_stats"}

FirstLabel(op) ==
    CASE op = "create_session" -> "cs_check"
      [] op = "write_to_session" -> "ws_lock"
      [] op = "resize_session" -> "rs_lock"
      [] op = "close_session" -> "xs_lock"
      [] op = "cleanup_idle_sessions" -> "cl_lock"
      [] op = "get_stats" -> "gs_lock"

\* A caller thread, free or back from its last call, enters one of the
\* public operations.  The threads are interchangeable: a thread makes its
\* first call after the threads before it have made theirs.
Call(t) ==
    /\ pc[t] \in {"idle", "done"}
    /\ \A u \in Threads : u < t => pc[u] # "idle"
    /\ calls < MaxCalls
    /\ calls' = calls + 1
    /\ \E op \in Ops :
         \E i \in (IF op \in {"create_session", "cleanup_idle_sessions",
                              "get_stats"}
                   THEN {NoId} ELSE Ids) :
           \E sz \in (IF op = "resize_session" THEN ResizeSizes ELSE {NoSize}) :
            /\ pc' = [pc EXCEPT ![t] = FirstLabel(op)]
            /\ frame' = [frame EXCEPT ![t] = [IdleFrame EXCEPT !.op = op,
                                                               !.id = i,
                                                               !.size = sz]]
    /\ UNCHANGED <<termVars, pty_size, now, ticks, sessions, created_at,
                   last_activity, usedIds, pump, pumpT, lockHolder, poisoned>>

\* The labels at which a thread calls self.sessions.lock().unwrap() without
\* holding the registry mutex.
LockLabels == {"cs_check", "cs_recheck", "cs_insert", "cs_log", "ws_lock",
               "rs_lock", "xs_lock", "cl_lock", "gs_lock"}

\* lock() on a poisoned mutex returns Err and unwrap() panics.
lock_poisoned(t) ==
    /\ pc[t] \in LockLabels
    /\ lockHolder = NoThread
    /\ poisoned
    /\ pc' = [pc EXCEPT ![t] = "panicked"]
    /\ UNCHANGED <<termVars, pty_size, calls, now, ticks, sessions,
                   created_at, last_activity, usedIds, pump, pumpT,
                   lockHolder, poisoned, frame>>

\* -------------------------------------------------- cleanup_idle_sessions

\* Lines 227-228: lock the registry, read the clock.
cleanup_idle_sessions_lock(t) ==
    /\ pc[t] = "cl_lock"
    /\ LockFree
    /\ lockHolder' = t
    /\ pc' = [pc EXCEPT ![t] = "cl_scan"]
    /\ frame' = [frame EXCEPT ![t].t_now = now, ![t].todo = sessions,
                              ![t].idle = {}, ![t].seen = {}]
    /\ UNCHANGED <<termVars, pty_size, calls, now, ticks, sessions,
                   created_at, last_activity, usedIds, pump, pumpT, poisoned>>

\* Lines 230-240, one element of the iteration: lock the session's cell,
\* copy the timestamp and keep the id when it is idle.  The map iterates in
\* no particular order.
cleanup_idle_sessions_scan(t) ==
    /\ pc[t] = "cl_scan"
    /\ frame[t].todo # {}
    /\ \E i \in frame[t].todo :
         frame' = [frame EXCEPT
            ![t].todo = @ \ {i},
            ![t].seen = @ \cup {<<i, last_activity[i]>>},
            ![t].idle = IF IsIdle(frame[t].t_now, last_activity[i], IDLE_TIMEOUT)
                        THEN @ \cup {i} ELSE @]
    /\ UNCHANGED <<termVars, pty_size, calls, now, ticks, sessions,
                   created_at, last_activity, usedIds, pump, pumpT,
                   lockHolder, poisoned, pc>>

\* Lines 242-250: remove the collected ids and release the registry.  A call
\* made by create_session (line 83) goes on to the second ceiling test.
cleanup_idle_sessions_remove(t) ==
    /\ pc[t] = "cl_scan"
    /\ frame[t].todo = {}
    /\ sessions' = sessions \ frame[t].idle
    /\ created_at' = DropCreated(frame[t].idle)
    /\ last_activity' = DropCells(frame[t].idle)
    /\ lockHolder' = NoThread
    /\ IF frame[t].op = "create_session"
       THEN /\ pc' = [pc EXCEPT ![t] = "cs_recheck"]
            /\ frame' = [frame EXCEPT ![t].t_now = 0, ![t].seen = {}]
       ELSE Finish(t, "Ok")
    /\ UNCHANGED <<termVars, pty_size, calls, now, ticks, usedIds, pump,
                   pumpT, poisoned>>

\* --------------------------------------------------- create_pty_with_retry

\* Lines 47-70, one iteration of `for attempt in 0..self.retry_attempts`:
\* sleep first when attempt > 0, then call openpty, which succeeds or fails.
create_pty_with_retry_attempt(t) ==
    /\ pc[t] = "cs_pty"
    /\ LoopContinues(frame[t].attempt)
    /\ \E ok \in BOOLEAN :
         /\ frame' = [frame EXCEPT
               ![t].delays = IF frame[t].attempt > 0
                             THEN Append(@, BackoffDelay(frame[t].attempt))
                             ELSE @,
               ![t].attempts_made = @ + 1,
               ![t].attempt = IF ok THEN @ ELSE @ + 1]
         /\ pc' = [pc EXCEPT ![t] = IF ok THEN "cs_spawn" ELSE "cs_pty"]
    /\ UNCHANGED <<termVars, pty_size, calls, now, ticks, sessions,
                   created_at, last_activity, usedIds, pump, pumpT,
                   lockHolder, poisoned>>

\* Line 73: the range is used up; the error passes through `?` of line 98.
create_pty_with_retry_exhausted(t) ==
    /\ pc[t] = "cs_pty"
    /\ ~LoopContinues(frame[t].attempt)
    /\ Finish(t, "ResourceExhausted")
    /\ UNCHANGED <<termVars, pty_size, calls, now, ticks, sessions,
                   created_at, last_activity, usedIds, pump, pumpT,
                   lockHolder, poisoned>>

\* ---------------------------------------------------------- create_session

\* Lines 78-84 and 90: the first ceiling test.  The guard is dropped before
\* the sweep and at the end of the block.
create_session_check(t) ==
    /\ pc[t] = "cs_check"
    /\ LockFree
    /\ frame' = [frame EXCEPT ![t].len0 = Cardinality(sessions)]
    /\ pc' = [pc EXCEPT ![t] = IF AtCapacity(Cardinality(sessions))
                               THEN "cl_lock" ELSE "cs_pty"]
    /\ UNCHANGED <<termVars, pty_size, calls, now, ticks, sessions,
                   created_at, last_activity, usedIds, pump, pumpT,
                   lockHolder, poisoned>>

\* Lines 85-88: the second ceiling test, after the sweep.
create_session_recheck(t) ==
    /\ pc[t] = "cs_recheck"
    /\ LockFree
    /\ IF AtCapacity(Cardinality(sessions))
       THEN Finish(t, "CapacityExceeded")
       ELSE /\ pc' = [pc EXCEPT ![t] = "cs_pty"]
            /\ frame' = frame
    /\ UNCHANGED <<termVars, pty_size, calls, now, ticks, sessions,
                   created_at, last_activity, usedIds, pump, pumpT,
                   lockHolder, poisoned>>

\* Whether the reader thread is running when error e is returned.  The
\* three `?` of lines 111-133 all come before the id is drawn (line 136)
\* and the thread is started (line 142).
StartedOnErrorMutant(e) == e = "WriterFailure"
StartedOnError(e) == FALSE

\* Lines 100-133, a failure: spawn_command, try_clone_reader or take_writer
\* returns Err and `?` returns it.
create_session_spawn_fail(t) ==
    /\ pc[t] = "cs_spawn"
    /\ \E e \in {"SpawnFailure", "ReaderFailure", "WriterFailure"} :
         /\ Finish(t, e)
         /\ IF StartedOnError(e)
            THEN \E i \in NewUuid(usedIds) :
                    /\ usedIds' = usedIds \cup {i}
                    /\ pump' = [pump EXCEPT ![i] = "reading"]
            ELSE UNCHANGED <<usedIds, pump>>
    /\ UNCHANGED <<termVars, pty_size, calls, now, ticks, sessions,
                   created_at, last_activity, pumpT, lockHolder, poisoned>>

\* Lines 100-167, success: the shell runs, the id is drawn, the cell
\* last_activity is created from a clock reading (line 138) and the reader
\* thread is started (line 142).
create_session_spawn(t) ==
    /\ pc[t] = "cs_spawn"
    /\ \E i \in NewUuid(usedIds) :
         /\ usedIds' = usedIds \cup {i}
         /\ frame' = [frame EXCEPT ![t].id = i, ![t].attempt = 0,
                                   ![t].attempts_made = 0, ![t].delays = <<>>]
         /\ last_activity' = [last_activity EXCEPT ![i] = now]
         /\ pump' = [pump EXCEPT ![i] = "reading"]
         /\ pty_size' = [pty_size EXCEPT ![i] = DefaultSize]
    /\ pc' = [pc EXCEPT ![t] = "cs_build"]
    /\ UNCHANGED <<termVars, calls, now, ticks, sessions, created_at, pumpT,
                   lockHolder, poisoned>>

\* Lines 170-176: the PtySession value; created_at is a second clock reading.
create_session_build(t) ==
    /\ pc[t] = "cs_build"
    /\ frame' = [frame EXCEPT ![t].created = now]
    /\ pc' = [pc EXCEPT ![t] = "cs_insert"]
    /\ UNCHANGED <<termVars, pty_size, calls, now, ticks, sessions,
                   created_at, last_activity, usedIds, pump, pumpT,
                   lockHolder, poisoned>>

\* Line 179: insert under the registry lock, taken for this statement only.
create_session_insert(t) ==
    /\ pc[t] = "cs_insert"
    /\ LockFree
    /\ sessions' = sessions \cup {frame[t].id}
    /\ created_at' = [created_at EXCEPT ![frame[t].id] = frame[t].created]
    /\ pc' = [pc EXCEPT ![t] = "cs_log"]
    /\ UNCHANGED <<termVars, pty_size, calls, now, ticks, last_activity,
                   usedIds, pump, pumpT, lockHolder, poisoned, frame>>

\* Lines 182-185: the registry is locked once more for the length in the
\* log line, then the id is returned.
create_session_log(t) ==
    /\ pc[t] = "cs_log"
    /\ LockFree
    /\ Finish(t, "Ok")
    /\ UNCHANGED <<termVars, pty_size, calls, now, ticks, sessions,
                   created_at, last_activity, usedIds, pump, pumpT,
                   lockHolder, poisoned>>

\* -------------------------------------------------------- write_to_session

\* Lines 189-193: lock the registry and look the id up.  Unknown id: line
\* 199.  Known id: the right-hand side Instant::now() of line 193.
write_to_session_lock(t) ==
    /\ pc[t] = "ws_lock"
    /\ LockFree
    /\ IF frame[t].id \in sessions
       THEN /\ lockHolder' = t
            /\ frame' = [frame EXCEPT ![t].found = TRUE, ![t].t_la = now]
            /\ pc' = [pc EXCEPT ![t] = "ws_store"]
       ELSE /\ lockHolder' = lockHolder
            /\ Finish(t, "SessionNotFound")
    /\ UNCHANGED <<termVars, pty_size, calls, now, ticks, sessions,
                   created_at, last_activity, usedIds, pump, pumpT, poisoned>>

\* Lines 193-197: store the timestamp, write and flush (either may fail),
\* release the registry.
write_to_session_store(t) ==
    /\ pc[t] = "ws_store"
    /\ last_activity' = [last_activity EXCEPT
                            ![frame[t].id] = StoredInstant(@, frame[t].t_la)]
    /\ lockHolder' = NoThread
    /\ \E r \in {"Ok", "IoError"} : Finish(t, r)
    /\ UNCHANGED <<termVars, pty_size, calls, now, ticks, sessions,
                   created_at, usedIds, pump, pumpT, poisoned>>

\* ---------------------------------------------------------- resize_session

\* Lines 205-212.  The guard of the `if let` scrutinee lives to the end of
\* the `if let`.  An unknown id skips the body and reaches Ok(()) of line 212.
resize_session_lock(t) ==
    /\ pc[t] = "rs_lock"
    /\ LockFree
    /\ IF frame[t].id \in sessions
       THEN /\ lockHolder' = t
            /\ frame' = [frame EXCEPT ![t].found = TRUE, ![t].t_la = now]
            /\ pc' = [pc EXCEPT ![t] = "rs_store"]
       ELSE /\ lockHolder' = lockHolder
            /\ Finish(t, "Ok")
    /\ UNCHANGED <<termVars, pty_size, calls, now, ticks, sessions,
                   created_at, last_activity, usedIds, pump, pumpT, poisoned>>

\* Lines 206-212: store the timestamp, release the registry, return Ok(()).
\* The pty is not resized (line 209).
resize_session_store(t) ==
    /\ pc[t] = "rs_store"
    /\ last_activity' = [last_activity EXCEPT
                            ![frame[t].id] = StoredInstant(@, frame[t].t_la)]
    /\ lockHolder' = NoThread
    /\ Finish(t, "Ok")
    /\ UNCHANGED <<termVars, pty_size, calls, now, ticks, sessions,
                   created_at, usedIds, pump, pumpT, poisoned>>

\* ----------------------------------------------------------- close_session

\* Line 216: lock the registry and remove the id.  The guard is a temporary
\* of the `if let` scrutinee: it is held for the whole `if let`.  Unknown
\* id: line 221, and the guard is dropped.
close_session_lock(t) ==
    /\ pc[t] = "xs_lock"
    /\ LockFree
    /\ IF frame[t].id \in sessions
       THEN /\ sessions' = sessions \ {frame[t].id}
            /\ created_at' = DropCreated({frame[t].id})
            /\ last_activity' = DropCells({frame[t].id})
            /\ lockHolder' = t
            /\ frame' = [frame EXCEPT ![t].found = TRUE]
            /\ pc' = [pc EXCEPT ![t] = "xs_relock"]
       ELSE /\ UNCHANGED <<calls, sessions, created_at, last_activity, lockHolder>>
            /\ Finish(t, "SessionNotFound")
    /\ UNCHANGED <<termVars, pty_size, calls, now, ticks, usedIds, pump,
                   pumpT, poisoned>>

\* Line 218: self.sessions.lock() by the thread that holds the guard.  The
\* standard library leaves the outcome open: the call does not return, it
\* blocks for ever ...
close_session_relock_deadlock(t) ==
    /\ pc[t] = "xs_relock"
    /\ lockHolder = t
    /\ pc' = [pc EXCEPT ![t] = "deadlocked"]
    /\ UNCHANGED <<termVars, pty_size, calls, now, ticks, sessions,
                   created_at, last_activity, usedIds, pump, pumpT,
                   lockHolder, poisoned, frame>>

\* ... or it panics, and unwinding drops the guard and poisons the mutex.
close_session_relock_panic(t) ==
    /\ pc[t] = "xs_relock"
    /\ lockHolder = t
    /\ pc' = [pc EXCEPT ![t] = "panicked"]
    /\ lockHolder' = NoThread
    /\ poisoned' = TRUE
    /\ UNCHANGED <<termVars, pty_size, calls, now, ticks, sessions,
                   created_at, last_activity, usedIds, pump, pumpT, frame>>

\* --------------------------------------------------------------- get_stats

\* The owner of the registry mutex while the guard `sessions` of get_stats
\* is alive: the guard is a local of the function and lives to its end.
StatsGuardDropped(t) == NoThread
StatsGuard(t) == t

\* Lines 254-255: lock the registry, read the clock.
get_stats_lock(t) ==
    /\ pc[t] = "gs_lock"
    /\ LockFree
    /\ lockHolder' = StatsGuard(t)
    /\ pc' = [pc EXCEPT ![t] = "gs_scan"]
    /\ frame' = [frame EXCEPT ![t].t_now = now, ![t].todo = sessions,
                              ![t].stats = {}]
    /\ UNCHANGED <<termVars, pty_size, calls, now, ticks, sessions, created_at,
                   last_activity, usedIds, pump, pumpT, poisoned>>

\* Lines 257-267, one element of the iteration: lock the session's cell,
\* copy the timestamp, and list the id with its age and its idle time.
get_stats_scan(t) ==
    /\ pc[t] = "gs_scan"
    /\ frame[t].todo # {}
    /\ \E i \in frame[t].todo :
         frame' = [frame EXCEPT
            ![t].todo = @ \ {i},
            ![t].stats = @ \cup
                {<<i, DurationSince(frame[t].t_now, created_at[i]),
                   DurationSince(frame[t].t_now, last_activity[i])>>}]
    /\ UNCHANGED <<termVars, pty_size, calls, now, ticks, sessions, created_at,
                   last_activity, usedIds, pump, pumpT, lockHolder, poisoned,
                   pc>>

\* Lines 269-276: active_sessions is sessions.len(); the value is returned
\* and the registry released.
get_stats_return(t) ==
    /\ pc[t] = "gs_scan"
    /\ frame[t].todo = {}
    /\ lockHolder' = NoThread
    /\ pc' = [pc EXCEPT ![t] = "done"]
    /\ frame' = [frame EXCEPT ![t] =
          [IdleFrame EXCEPT !.op = "get_stats", !.result = "Ok",
                            !.stats = frame[t].stats,
                            !.active = Cardinality(sessions)]]
    /\ UNCHANGED <<termVars, pty_size, calls, now, ticks, sessions, created_at,
                   last_activity, usedIds, pump, pumpT, poisoned>>

\* ------------------------------------------------------------ the program

Next ==
    \/ Tick
    \/ \E i \in Ids : reader_read_data(i)
    \/ \E i \in Ids : reader_bump(i)
    \/ \E i \in Ids : reader_eof(i)
    \/ \E t \in Threads : Call(t)
    \/ \E t \in Threads : lock_poisoned(t)
    \/ \E t \in Threads : cleanup_idle_sessions_lock(t)
    \/ \E t \in Threads : cleanup_idle_sessions_scan(t)
    \/ \E t \in Threads : cleanup_idle_sessions_remove(t)
    \/ \E t \in Threads : create_pty_with_retry_attempt(t)
    \/ \E t \in Threads : create_pty_with_retry_exhausted(t)
    \/ \E t \in Threads : create_session_check(t)
    \/ \E t \in Threads : create_session_recheck(t)
    \/ \E t \in Threads : create_session_spawn_fail(t)
    \/ \E t \in Threads : create_session_spawn(t)
    \/ \E t \in Threads : create_session_build(t)
    \/ \E t \in Threads : create_session_insert(t)
    \/ \E t \in Threads : create_session_log(t)
    \/ \E t \in Threads : write_to_session_lock(t)
    \/ \E t \in Threads : write_to_session_store(t)
    \/ \E t \in Threads : resize_session_lock(t)
    \/ \E t \in Threads : resize_session_store(t)
    \/ \E t \in Threads : close_session_lock(t)
    \/ \E t \in Threads : close_session_relock_deadlock(t)
    \/ \E t \in Threads : close_session_relock_panic(t)
    \/ \E t \in Threads : get_stats_lock(t)
    \/ \E t \in Threads : get_stats_scan(t)
    \/ \E t \in Threads : get_stats_return(t)

Spec == Init /\ [][Next]_vars

\* A step of caller thread t inside the call it has made.
ThreadStep(t) ==
    \/ lock_poisoned(t)
    \/ cleanup_idle_sessions_lock(t)
    \/ cleanup_idle_sessions_scan(t)
    \/ cleanup_idle_sessions_remove(t)
    \/ create_pty_with_retry_attempt(t)
    \/ create_pty_with_retry_exhausted(t)
    \/ create_session_check(t)
    \/ create_session_recheck(t)
    \/ create_session_spawn_fail(t)
    \/ create_session_spawn(t)
    \/ create_session_build(t)
    \/ create_session_insert(t)
    \/ create_session_log(t)
    \/ write_to_session_lock(t)
    \/ write_to_session_store(t)
    \/ resize_session_lock(t)
    \/ resize_session_store(t)
    \/ close_session_lock(t)
    \/ close_session_relock_deadlock(t)
    \/ close_session_relock_panic(t)
    \/ get_stats_lock(t)
    \/ get_stats_scan(t)
    \/ get_stats_return(t)

\* The operating system runs every thread that can run: a caller thread
\* inside a call takes its next step, a reader thread that has read data
\* stores its timestamp.  Callers need not call, and whether the shell
\* writes or exits is the shell's affair: neither is forced.
FairSpec ==
    /\ Init
    /\ [][Next]_vars
    /\ \A t \in Threads : WF_vars(ThreadStep(t))
    /\ \A i \in Ids : WF_vars(reader_bump(i))

\* -------------------------------------------- TerminalManager (terminal.rs)

\* The call of thread t returns `res`.
TermReturn(t, op, i, res) ==
    /\ term_pc' = [term_pc EXCEPT ![t] = "idle"]
    /\ term_frame' = [term_frame EXCEPT ![t] =
          [op |-> op, id |-> i, inst |-> NoInstance, result |-> res]]

\* create_terminal, lines 25-55, a failure: openpty, spawn_command,
\* take_writer or try_clone_reader returns Err and `?` returns it.
create_terminal_fail(t) ==
    /\ term_pc[t] = "idle"
    /\ \E i \in TermIds : TermReturn(t, "create_terminal", i, "Err")
    /\ UNCHANGED <<ptyVars, terminals, term_size, term_made, term_pumps,
                   term_emitted>>

\* create_terminal, lines 25-77, success: the pty is open, bash runs in it,
\* the Terminal value is built and the reader thread is started under the
\* caller's id.  Nothing looks the id up in the map.
create_terminal_open(t) ==
    /\ term_pc[t] = "idle"
    /\ term_made < MaxTerminals
    /\ term_made' = term_made + 1
    /\ \E i \in TermIds :
         /\ term_pumps' = term_pumps \cup {<<i, term_made + 1>>}
         /\ term_frame' = [term_frame EXCEPT ![t] =
               [op |-> "create_terminal", id |-> i, inst |-> term_made + 1,
                result |-> "none"]]
    /\ term_pc' = [term_pc EXCEPT ![t] = "tm_insert"]
    /\ UNCHANGED <<ptyVars, terminals, term_size, term_emitted>>

\* Lines 79-80: HashMap::insert under the map's lock.  A Terminal stored
\* under the same id is replaced and dropped; its reader thread is not
\* told.
create_terminal_insert(t) ==
    /\ term_pc[t] = "tm_insert"
    /\ terminals' = [terminals EXCEPT ![term_frame[t].id] = term_frame[t].inst]
    /\ term_size' = [term_size EXCEPT ![term_frame[t].id] = DefaultSize]
    /\ term_pc' = [term_pc EXCEPT ![t] = "idle"]
    /\ term_frame' = [term_frame EXCEPT ![t].result = "Ok"]
    /\ UNCHANGED <<ptyVars, term_made, term_pumps, term_emitted>>

\* Lines 83-95: write and flush under the map's lock.
write_to_terminal(t) ==
    /\ term_pc[t] = "idle"
    /\ \E i \in TermIds :
         IF terminals[i] # NoInstance
         THEN \E r \in {"Ok", "IoError"} :
                 TermReturn(t, "write_to_terminal", i, r)
         ELSE TermReturn(t, "write_to_terminal", i, "TerminalNotFound")
    /\ UNCHANGED <<ptyVars, terminals, term_size, term_made, term_pumps,
                   term_emitted>>

\* Lines 97-111: resize the pty of the stored Terminal under the map's
\* lock; MasterPty::resize may fail.
resize_terminal(t) ==
    /\ term_pc[t] = "idle"
    /\ \E i \in TermIds, sz \in ResizeSizes :
         IF terminals[i] # NoInstance
         THEN \/ /\ term_size' = [term_size EXCEPT ![i] = sz]
                 /\ TermReturn(t, "resize_terminal", i, "Ok")
              \/ /\ term_size' = term_size
                 /\ TermReturn(t, "resize_terminal", i, "Err")
         ELSE /\ term_size' = term_size
              /\ TermReturn(t, "resize_terminal", i, "TerminalNotFound")
    /\ UNCHANGED <<ptyVars, terminals, term_made, term_pumps, term_emitted>>

\* Lines 113-116: remove the id from the map, whether it is there or not.
\* The Terminal is dropped; its reader thread is not told.
close_terminal(t) ==
    /\ term_pc[t] = "idle"
    /\ \E i \in TermIds :
         /\ terminals' = [terminals EXCEPT ![i] = NoInstance]
         /\ term_size' = [term_size EXCEPT ![i] = NoSize]
         /\ TermReturn(t, "close_terminal", i, "Ok")
    /\ UNCHANGED <<ptyVars, term_made, term_pumps, term_emitted>>

\* Lines 65-70: the reader thread of Terminal k, started under id i, reads
\* data and emits ("terminal-output", (i, data)).
term_reader_output(i, k) ==
    /\ <<i, k>> \in term_pumps
    /\ term_emitted' = [term_emitted EXCEPT ![i] = k]
    /\ UNCHANGED <<ptyVars, terminals, term_size, term_made, term_pumps,
                   term_pc, term_frame>>

\* Lines 66 and 71-74: Ok(0) or Err(e), the thread ends.
term_reader_eof(i, k) ==
    /\ <<i, k>> \in term_pumps
    /\ term_pumps' = term_pumps \ {<<i, k>>}
    /\ UNCHANGED <<ptyVars, terminals, term_size, term_made, term_emitted,
                   term_pc, term_frame>>

TermNext ==
    \/ \E t \in Threads : create_terminal_fail(t)
    \/ \E t \in Threads : create_terminal_open(t)
    \/ \E t \in Threads : create_terminal_insert(t)
    \/ \E t \in Threads : write_to_terminal(t)
    \/ \E t \in Threads : resize_terminal(t)
    \/ \E t \in Threads : close_terminal(t)
    \/ \E i \in TermIds, k \in Instances : term_reader_output(i, k)
    \/ \E i \in TermIds, k \in Instances : term_reader_eof(i, k)

TermSpec == Init /\ [][TermNext]_vars

\* ------------------------------------------------------------- properties

NonDecreasing(seq) == \A k \in 1..(Len(seq) - 1) : seq[k] <= seq[k + 1]

\* The errors of create_session that come from the pty or the shell.
PtyOrSpawnErrors ==
    {"ResourceExhausted", "SpawnFailure", "ReaderFailure", "WriterFailure"}

\* C1: under any interleaving of create_session, close_session and
\* cleanup_idle_sessions calls, the registry never holds more than
\* max_sessions sessions.
C1_RegistryWithinMax == Cardinality(sessions) <= max_sessions

\* C2: a close_session call that finds its id in the registry returns Ok, the
\* id being absent from the registry from then on; it does not end in any
\* other way.
C2_CloseKnownReturnsOk ==
    \A t \in Threads :
        (frame[t].op = "close_session" /\ frame[t].found) =>
            /\ pc[t] \in {"xs_relock", "done"}
            /\ pc[t] = "done" =>
                  (frame[t].result = "Ok" /\ frame[t].id \notin sessions)

\* C3: write_to_session, resize_session and close_session on an id that is
\* not in the registry return the SessionNotFound error and leave the
\* registry unchanged.
C3_UnknownIdFails ==
    [][\A t \in Threads :
          (/\ pc[t] \in {"ws_lock", "rs_lock", "xs_lock"}
           /\ pc'[t] = "done"
           /\ frame[t].id \notin sessions)
          => (frame'[t].result = "SessionNotFound" /\ sessions' = sessions)]_vars

C6_RemovedOnlyIfIdleAtRemoval ==
    [][\A t \in Threads :
          (pc[t] = "cl_scan" /\ frame[t].todo = {} /\ pc'[t] # "cl_scan")
          => \A i \in sessions \ sessions' :
                 frame[t].t_now - last_activity[i] > IDLE_TIMEOUT]_vars

\* C7: a pass of cleanup_idle_sessions scans every session of the registry
\* and removes exactly those whose idle duration at the scan, the pass's
\* clock reading minus the timestamp read, is greater than the threshold; a
\* session idle for exactly the threshold stays.
C7_PassRemovesExactlyIdle ==
    [][\A t \in Threads :
          (pc[t] = "cl_scan" /\ frame[t].todo = {} /\ pc'[t] # "cl_scan")
          => /\ {p[1] : p \in frame[t].seen} = sessions
             /\ \A p \in frame[t].seen :
                   (p[1] \notin sessions')
                       <=> (frame[t].t_now - p[2] > IDLE_TIMEOUT)]_vars

\* A pass has returned after removing a session.
C7_Witness ==
    \E t \in Threads :
        /\ pc[t] = "done"
        /\ frame[t].op = "cleanup_idle_sessions"
        /\ frame[t].idle # {}
        /\ frame[t].idle \cap sessions = {}

\* C8: while a session is in the registry its last_activity never decreases.
C8_LastActivityMonotonic ==
    [][\A i \in Ids :
          (i \in sessions /\ i \in sessions')
          => last_activity'[i] >= last_activity[i]]_vars

\* C9 as stated: the exhaustion error is returned after at least
\* retry_attempts attempts following the first one.
C9_RetriesAfterFirst ==
    \A t \in Threads :
        (pc[t] = "done" /\ frame[t].result = "ResourceExhausted")
        => frame[t].attempts_made >= retry_attempts + 1

\* C9 as amended: the exhaustion error is returned after exactly
\* retry_attempts attempts in all (retry_attempts - 1 after the first), with
\* one sleep before each attempt but the first and non-decreasing sleeps; an
\* attempt that succeeds is the last one, and no sleep follows it.
C9_AttemptsAndDelays ==
    \A t \in Threads :
        /\ (pc[t] = "done" /\ frame[t].result = "ResourceExhausted")
           => /\ frame[t].attempts_made = retry_attempts
              /\ Len(frame[t].delays) = retry_attempts - 1
              /\ NonDecreasing(frame[t].delays)
        /\ pc[t] = "cs_spawn"
           => /\ frame[t].attempts_made = frame[t].attempt + 1
              /\ Len(frame[t].delays) = frame[t].attempt
              /\ NonDecreasing(frame[t].delays)

\* Every attempt failed and the exhaustion error came back.
C9_Witness ==
    \E t \in Threads :
        /\ pc[t] = "done"
        /\ frame[t].result = "ResourceExhausted"
        /\ Len(frame[t].delays) >= 2

\* C10: the sleep before the k-th retry is 100 ms * 2^(k-1).
C10_BackoffFromBase ==
    \A t \in Threads :
        \A k \in 1..Len(frame[t].delays) :
            frame[t].delays[k] = 100 * (2 ^ (k - 1))

\* C11: when the reader thread of a session ends (a zero-length read or a
\* read error), the session leaves the registry with it, without a
\* close_session call.
C11_PumpEndRemovesSession ==
    [][\A i \in Ids :
          (pump[i] # "done" /\ pump'[i] = "done") => i \notin sessions']_vars

\* The pty handles of session i.  The writer is a local of create_session
\* until it moves into the PtySession of the registry; the reader clone is
\* owned by the reader thread; the master (pty_pair) is a local of
\* create_session.
WriterHeld(i) ==
    \/ i \in sessions
    \/ \E t \in Threads : frame[t].id = i /\ pc[t] \in {"cs_build", "cs_insert"}
ReaderHeld(i) == pump[i] \in {"reading", "bump"}
MasterHeld(i) ==
    \E t \in Threads :
        frame[t].id = i /\ pc[t] \in {"cs_build", "cs_insert", "cs_log"}

\* C12: once a session has left the registry, its writer, its reader clone
\* and its master are eventually released and its reader thread eventually
\* ends.
C12_RemovedSessionReleased ==
    \A i \in Ids :
        [](i \in sessions =>
              [](i \notin sessions =>
                    <>(~WriterHeld(i) /\ ~ReaderHeld(i) /\ ~MasterHeld(i))))

\* C13: resize_session(id, rows, cols) on an id of the registry sets the
\* dimensions of that session's pty to rows x cols and updates its
\* last_activity; the registry and every other session stay as they were.
C13_ResizeSetsSize ==
    [][\A t \in Threads :
          (pc[t] = "rs_store" /\ pc'[t] = "done")
          => /\ pty_size'[frame[t].id] = frame[t].size
             /\ last_activity'[frame[t].id] = frame[t].t_la
             /\ sessions' = sessions
             /\ \A j \in Ids \ {frame[t].id} :
                   /\ pty_size'[j] = pty_size[j]
                   /\ last_activity'[j] = last_activity[j]]_vars

\* The Terminal values made under id i that are still reachable: stored in
\* the map, or served by a running reader thread.
ReachableTerminals(i) ==
    {k \in Instances : terminals[i] = k \/ <<i, k>> \in term_pumps}

\* C14: in TerminalManager there is at most one reachable session per id at
\* any time: create_terminal never takes the id of a session that is still
\* in the map or still served by a running reader thread, so no two reader
\* threads emit under one id.
C14_OneSessionPerId ==
    \A i \in TermIds : Cardinality(ReachableTerminals(i)) <= 1

\* The ids listed in a `sessions` array of get_stats.
ListedIds(stats) == {e[1] : e \in stats}

\* C15: get_stats returns a snapshot of one registry state: the ids it lists
\* are the ids of the registry at the moment it returns, which is the
\* registry it has been scanning since it took the lock; active_sessions is
\* the number of entries listed; and no step of the call changes the
\* registry, a created_at or a last_activity, whatever runs beside it.
C15_StatsIsSnapshot ==
    [][\A t \in Threads :
          /\ pc[t] = "gs_scan"
             => ListedIds(frame[t].stats) \cup frame[t].todo = sessions
          /\ (pc[t] = "gs_scan" /\ pc'[t] = "done")
             => /\ ListedIds(frame'[t].stats) = sessions
                /\ Cardinality(frame'[t].stats) = Cardinality(sessions)
                /\ frame'[t].active = Cardinality(frame'[t].stats)
          /\ (/\ pc[t] \in {"gs_lock", "gs_scan"}
              /\ <<pc'[t], frame'[t]>> # <<pc[t], frame[t]>>)
             => /\ sessions' = sessions
                /\ created_at' = created_at
                /\ last_activity' = last_activity]_vars

\* get_stats has returned a list with a session in it while the other
\* thread is inside a call.
C15_Witness ==
    \E t \in Threads :
        /\ pc[t] = "done"
        /\ frame[t].op = "get_stats"
        /\ frame[t].active >= 1
        /\ frame[t].stats # {}
        /\ \E u \in Threads \ {t} : pc[u] \notin {"idle", "done", "gs_lock"}

\* The registry mutex is held by a thread that will never release it.
LockHeldForEver == lockHolder # NoThread /\ pc[lockHolder] = "deadlocked"

\* C16: writes to one session are serialized: no two threads are between
\* the lookup and the end of the write at once, and bytes go only to a
\* session that is in the registry; and a write_to_session that meets a
\* close_session of its id ends by completing or by SessionNotFound: it
\* does not panic, and it does not wait for a lock that is never released.
C16_WritesSerialized ==
    /\ \A t, u \in Threads :
          (pc[t] = "ws_store" /\ pc[u] = "ws_store") => t = u
    /\ \A t \in Threads :
          /\ pc[t] = "ws_store" => frame[t].id \in sessions
          /\ frame[t].op = "write_to_session" => pc[t] # "panicked"
          /\ pc[t] = "ws_lock"
             => ~(LockHeldForEver /\ frame[lockHolder].id = frame[t].id)

\* C17: every call returns: no thread asks for the registry mutex while it
\* holds it itself, no thread is blocked for good, and no thread waits for
\* the registry mutex while its holder is blocked for good.
C17_NoThreadWaitsForEver ==
    \A t \in Threads :
        /\ pc[t] \in LockLabels \cup {"xs_relock"} => lockHolder # t
        /\ pc[t] # "deadlocked"
        /\ pc[t] \in LockLabels => ~LockHeldForEver

\* C18: a session that sees no more activity is removed by the periodic
\* sweep in the end.  The sweep removes under the registry mutex, so as
\* long as a session is in the registry the mutex must stay obtainable:
\* not held by a thread that is blocked for good, and not poisoned.
C18_SweepReachesIdleSession ==
    \A i \in sessions : ~LockHeldForEver /\ ~poisoned

\* The labels at which a caller thread locks a last_activity cell.
CellLabels == {"ws_store", "rs_store", "cl_scan", "gs_scan"}

\* C19: the reader thread never takes the registry mutex: its store into
\* last_activity can happen whoever holds the registry, and none of its
\* steps changes the registry mutex; a caller thread that locks a
\* last_activity cell holds the registry mutex already.
C19_PumpTakesNoRegistryLock ==
    [][/\ \A i \in Ids :
             /\ pump[i] = "bump" => ENABLED reader_bump(i)
             /\ (pump[i] # "none" /\ pump'[i] # pump[i])
                => (lockHolder' = lockHolder /\ poisoned' = poisoned)
       /\ \A t \in Threads : pc[t] \in CellLabels => lockHolder = t]_vars

\* A reader thread is about to store its timestamp while a caller thread
\* holds the registry mutex.
C19_Witness ==
    \E i \in sessions, t \in Threads :
        /\ pump[i] = "bump"
        /\ lockHolder = t
        /\ pc[t] \in CellLabels

\* C20: a terminal-output event with a session's id is emitted only after
\* create_session has inserted that session into the registry.
C20_OutputOnlyAfterInsert ==
    [][\A i \in Ids :
          (pump[i] = "bump" /\ pump'[i] = "reading") => i \notin Unpublished]_vars

\* The errors create_session returns.
CreateErrors == PtyOrSpawnErrors \cup {"CapacityExceeded"}

\* C21: a create_session that returns an error has drawn no id, has
\* inserted nothing into the registry and has started no reader thread:
\* its returning step leaves the registry, the ids drawn and the reader
\* threads as they were, and the call never got an id.
C21_ErrorInsertsNothing ==
    [][\A t \in Threads :
          (/\ frame[t].op = "create_session"
           /\ pc[t] # "done"
           /\ pc'[t] = "done"
           /\ frame'[t].result # "Ok")
          => /\ frame'[t].result \in CreateErrors
             /\ frame[t].id = NoId
             /\ frame'[t].id = NoId
             /\ sessions' = sessions
             /\ usedIds' = usedIds
             /\ pump' = pump]_vars

\* A create_session has failed to obtain the reader or the writer and has
\* returned the error, while a session is in the registry.
C21_Witness ==
    \E t \in Threads :
        /\ pc[t] = "done"
        /\ frame[t].op = "create_session"
        /\ frame[t].result \in {"ReaderFailure", "WriterFailure"}
        /\ sessions # {}

\* C22: in every value get_stats returns, the idle_seconds of a session is
\* at most its age_seconds.
C22_IdleAtMostAge ==
    \A t \in Threads :
        (pc[t] = "done" /\ frame[t].op = "get_stats")
        => \A e \in frame[t].stats : e[3] <= e[2]

====
